---- MODULE Spec2Model ----
(***************************************************************************)
(* Model of the agentic-email core: the AgentOrchestrator pipeline         *)
(* (agent-orchestrator.service.ts) and the CampaignService state machine   *)
(* and scheduler (campaign.service.ts).                                    *)
(***************************************************************************)
EXTENDS Integers, Sequences, FiniteSets, TLC

VARIABLES
    agents,          \* AgentOrchestrator.agents: Map<string, IAgent>, in insertion order
    regOps,          \* number of registerAgent/unregisterAgent calls made so far
    regResult,       \* the last registerAgent/unregisterAgent call and how it ended
    pc,              \* position of processEmailInternal
    email,           \* the argument of processEmailInternal
    processedEmail,  \* let processedEmail
    startAgents,     \* Array.from(this.agents.values()) as read when the run started
    sortedAgents,    \* const sortedAgents
    idx,             \* position of the for..of loop in sortedAgents
    agentResults,    \* const agentResults = new Map()
    task,            \* the task object of the current loop iteration (its ledger key), 0 if none
    ledger,          \* the agent_tasks table written by database.saveAgentTask
    invocations,     \* every agent.process call made by the run: <<agent id, message passed>>
    inFlight,        \* agents whose process call has been made and has not settled
    thrown,          \* ids of the agents whose process call threw in this run
    returned,        \* the ProcessingResult returned by processEmailInternal, or NoResult
    campaigns,       \* CampaignService.campaigns: Map<string, EmailCampaign>
    created,         \* number of campaigns createCampaign has made (each gets a fresh uuid)
    queue,           \* campaignQueue: the 'send-campaign' jobs that are delayed or waiting
    failedJobs,      \* campaignQueue: the campaign ids of the jobs in the failed list
    now,             \* Date.now()
    lastOp,          \* the last CampaignService call or job callback and how it ended
    writes,          \* the assignments to a campaign's status made by the last call, in order
    deleted,         \* ids for which deleteCampaign returned true
    drafts,          \* CampaignService.drafts: Map<string, EmailDraft>
    executing,       \* the 'send-campaign' callback suspended inside executeCampaign, if any
    recurrence       \* the last recurring schedule handed to the scheduler and its cron pattern

pipelineVars == <<agents, regOps, regResult, pc, email, processedEmail, startAgents, sortedAgents, idx,
                  agentResults, task, ledger, invocations, inFlight, thrown, returned>>

campaignVars == <<campaigns, created, queue, failedJobs, now, lastOp, writes, deleted, drafts,
                  executing, recurrence>>

\* what a CampaignService call that runs to completion leaves alone
otherVars == <<pipelineVars, executing, recurrence>>

vars == <<pipelineVars, campaignVars>>

----------------------------------------------------------------------------
(* Bounds *)

MaxRegOps == 3

\* jobs the queue holds at a time
MaxQueue == 2

\* the clock runs from 1 to MaxTime
MaxTime == 2

\* executions of one campaign
MaxRuns == 2

\* drafts createDraft makes
MaxDrafts == 2

(* Universe of the model *)

AgentIds == {"a1", "a2", "a3"}

\* types a registered unit may declare: two from the table and one the table does not hold
AgentTypes == {"filter", "responder", "custom"}

\* the numeric priority each unit declares (AgentConfig.priority); fixed per id so that
\* it disagrees with the type ranking for some choice of types
DeclaredPriority(id) == CASE id = "a1" -> 5 [] id = "a2" -> 50 [] OTHER -> 95

\* the enabled flag each unit's configuration carries (AgentConfig.enabled); fixed per id
DeclaredEnabled(id) == id # "a2"

Fields == {"category", "priority"}

NoValue == "undefined"

InputEmails ==
    { [id |-> "m1", category |-> "primary", priority |-> "normal"],
      [id |-> "m2", category |-> "social",  priority |-> "low"] }

\* Partial<Email> objects a unit may return as modifications
\* (a field the object does not carry is NoValue)
Modifications ==
    { [category |-> "spam",      priority |-> NoValue],
      [category |-> "updates",   priority |-> "high"] }

\* result.modifications absent
NoModifications == [category |-> NoValue, priority |-> NoValue]

NoEmail == [id |-> NoValue, category |-> NoValue, priority |-> NoValue]

NoResult == [email |-> NoEmail, agentResults |-> <<>>, finalEmail |-> NoEmail]

\* what an agent.process call can do: resolve with an AgentProcessResult or throw
ProcessResults ==
    [success : {TRUE}, modifications : Modifications \cup {NoModifications}, error : {NoValue}]
    \cup { [success |-> FALSE, modifications |-> NoModifications, error |-> "rejected"],
           [success |-> FALSE, modifications |-> [category |-> "spam", priority |-> NoValue],
            error |-> NoValue] }

ThrownValues == {"Error:boom", "nonError"}

----------------------------------------------------------------------------
(* Pure helpers *)

\* AgentOrchestrator.getAgentPriority
getAgentPriority(agent) ==
    CASE agent.type = "security"    -> 100
      [] agent.type = "filter"      -> 90
      [] agent.type = "categorizer" -> 80
      [] agent.type = "prioritizer" -> 70
      [] agent.type = "summarizer"  -> 60
      [] agent.type = "translator"  -> 50
      [] agent.type = "responder"   -> 40
      [] agent.type = "scheduler"   -> 30
      [] OTHER                      -> 0

\* mutant: the sort consults the unit's declared numeric priority
compareAgentsDeclared(a, b) == b.priority - a.priority

\* the comparator of the sort: (a, b) => priorityB - priorityA
compareAgents(a, b) == getAgentPriority(b) - getAgentPriority(a)

\* mutant: an unstable sort, x goes before the elements it compares equal to
InsertSortedBeforeEquals(sorted, x) ==
    LET k == Cardinality({i \in 1..Len(sorted) : compareAgents(sorted[i], x) < 0})
    IN  SubSeq(sorted, 1, k) \o <<x>> \o SubSeq(sorted, k + 1, Len(sorted))

\* Array.prototype.sort is stable: x goes after every element it does not precede
InsertSorted(sorted, x) ==
    LET k == Cardinality({i \in 1..Len(sorted) : compareAgents(sorted[i], x) <= 0})
    IN  SubSeq(sorted, 1, k) \o <<x>> \o SubSeq(sorted, k + 1, Len(sorted))

RECURSIVE SortAgents(_)
SortAgents(s) ==
    IF s = <<>> THEN <<>>
    ELSE InsertSorted(SortAgents(SubSeq(s, 1, Len(s) - 1)), s[Len(s)])

\* mutant: the spread is written the other way round, { ...modifications, ...processedEmail }
MergeKeepFirst(e, m) ==
    [f \in DOMAIN e |-> IF e[f] # NoValue THEN e[f] ELSE m[f]]

\* { ...processedEmail, ...result.modifications }
Merge(e, m) ==
    [f \in DOMAIN e |-> IF f \in Fields /\ m[f] # NoValue THEN m[f] ELSE e[f]]

\* error instanceof Error ? error.message : 'Unknown error'
ErrorMessage(t) == IF t = "Error:boom" THEN "boom" ELSE "Unknown error"

RegisteredIds == {agents[i].id : i \in 1..Len(agents)}

RemoveAt(s, i) == SubSeq(s, 1, i - 1) \o SubSeq(s, i + 1, Len(s))


----------------------------------------------------------------------------
(* CampaignService: universe and helpers *)

\* uuids handed out by createCampaign, in order
CampaignIdSeq == <<"c1">>

CampaignIds == {CampaignIdSeq[i] : i \in 1..Len(CampaignIdSeq)}

CampaignStatuses == {"draft", "scheduled", "active", "paused", "completed", "cancelled"}

\* no schedule supplied by the caller
NoSchedule == [startDate |-> -1, frequency |-> NoValue]

\* schedules a caller may pass: a start at the initial clock or after it, one-time or recurring
Schedules == [startDate : {1, 2}, frequency : {NoValue, "daily"}]

\* campaign.metrics.sent += 100
SentPerRun == 100

\* attempts: 3 of the one-time job
OneTimeAttempts == 3

\* a repeating job carries no attempts option: the queue's default
DefaultAttempts == 1

\* backoff { type: 'exponential', delay: 60000 }, in clock units: 1, 2, 4, ...
RECURSIVE Backoff(_)
Backoff(attemptsMade) == IF attemptsMade <= 1 THEN 1 ELSE 2 * Backoff(attemptsMade - 1)

\* first firing of a repeating job: the next occurrence after now, not before startDate
NextOccurrence(schedule, t) == IF schedule.startDate > t THEN schedule.startDate ELSE t + 1

\* a time past the end of the clock is never reached: all such times are one value
Horizon(t) == IF t > MaxTime THEN MaxTime + 1 ELSE t

Wrap(what, message) == "Failed to " \o what \o " campaign: " \o message

----------------------------------------------------------------------------
(* Recurrence: strings are sequences of one-character strings *)

Digits == <<"0", "1", "2", "3", "4", "5", "6", "7", "8", "9">>

IsDigit(c) == \E i \in 1..10 : Digits[i] = c

DigitValue(c) == (CHOOSE i \in 1..10 : Digits[i] = c) - 1

\* String(n) for 0 <= n <= 99
NumberText(n) == IF n < 10 THEN <<Digits[n + 1]>> ELSE <<Digits[(n \div 10) + 1], Digits[(n % 10) + 1]>>

\* Array.prototype.join(sep) over numbers
RECURSIVE Join(_, _)
Join(numbers, sep) ==
    IF numbers = <<>> THEN <<>>
    ELSE IF Len(numbers) = 1 THEN NumberText(numbers[1])
    ELSE NumberText(numbers[1]) \o sep \o Join(Tail(numbers), sep)

\* absent optional values of a schedule; an absent string and '' are both falsy and
\* are one value here
NoText == <<>>

NoDays == <<-1>>

NoDay == -1

\* mutant: the default send time is '09:00'
DefaultSendTimeNine == <<"0", "9", ":", "0", "0">>

\* the send time used when the schedule has none: '10:00'
DefaultSendTime == <<"1", "0", ":", "0", "0">>

\* the weekday list used when the schedule has none: '1'
DefaultDays == <<"1">>

\* the day of the month used when the schedule has none: 1
DefaultDayOfMonth == 1

\* the pattern of a custom frequency without customCron: '0 10 * * *'
DefaultCron == <<"0", " ", "1", "0", " ", "*", " ", "*", " ", "*">>

\* a || b on strings
OrElse(text, default) == IF text = NoText THEN default ELSE text

\* schedule.frequency.daysOfWeek?.join(',')
DaysText(daysOfWeek) == IF daysOfWeek = NoDays THEN NoText ELSE Join(daysOfWeek, <<",">>)

\* scheduleRecurringCampaign, lines 354-371: the switch that builds cronPattern
cronPattern(schedule) ==
    LET time == OrElse(schedule.sendTime, DefaultSendTime)
    IN  CASE schedule.type = "daily" ->
               <<"0", " ">> \o time \o <<" ", "*", " ", "*", " ", "*">>
          [] schedule.type = "weekly" ->
               <<"0", " ">> \o time \o <<" ", "*", " ", "*", " ">>
                   \o OrElse(DaysText(schedule.daysOfWeek), DefaultDays)
          [] schedule.type = "monthly" ->
               <<"0", " ">> \o time \o <<" ">>
                   \o NumberText(IF schedule.dayOfMonth \in {NoDay, 0}
                                 THEN DefaultDayOfMonth ELSE schedule.dayOfMonth)
                   \o <<" ", "*", " ", "*">>
          [] schedule.type = "custom" -> OrElse(schedule.customCron, DefaultCron)

\* String.prototype.split(sep)
RECURSIVE Split(_, _)
Split(text, sep) ==
    IF \A i \in 1..Len(text) : text[i] # sep THEN <<text>>
    ELSE LET k == CHOOSE i \in 1..Len(text) :
                     text[i] = sep /\ \A j \in 1..(i - 1) : text[j] # sep
         IN  <<SubSeq(text, 1, k - 1)>> \o Split(SubSeq(text, k + 1, Len(text)), sep)

IsNumber(text) == text # <<>> /\ \A i \in 1..Len(text) : IsDigit(text[i])

RECURSIVE ToNumber(_)
ToNumber(text) ==
    IF text = <<>> THEN 0
    ELSE 10 * ToNumber(SubSeq(text, 1, Len(text) - 1)) + DigitValue(text[Len(text)])

\* the digits a text starts with, what parseInt reads
LeadingDigits(text) ==
    LET k == Cardinality({i \in 1..Len(text) : \A j \in 1..i : IsDigit(text[j])})
    IN  SubSeq(text, 1, k)

\* the queue's cron reader is not part of the sources: it either rejects a field that is
\* not a number, a list of numbers or '*' (strict), or reads the digits it starts with
\* (lenient)
ParserModes == {"strict", "lenient"}

ItemValues(item, mode) ==
    IF IsNumber(item) THEN {ToNumber(item)}
    ELSE IF mode = "lenient" /\ LeadingDigits(item) # <<>> THEN {ToNumber(LeadingDigits(item))}
    ELSE {}

FieldValid(field, mode) ==
    \/ field = <<"*">>
    \/ LET items == Split(field, ",")
       IN  \A i \in 1..Len(items) : ItemValues(items[i], mode) # {}

FieldValues(field, range, mode) ==
    IF field = <<"*">> THEN range
    ELSE LET items == Split(field, ",")
         IN  range \cap UNION {ItemValues(items[i], mode) : i \in 1..Len(items)}

\* whether a five-field pattern 'minute hour * * weekdays' fires at the given moment
FiresWeekly(cron, mode, weekday, hour, minute) ==
    LET fields == Split(cron, " ")
    IN  /\ Len(fields) = 5
        /\ \A i \in 1..5 : FieldValid(fields[i], mode)
        /\ fields[3] = <<"*">>
        /\ fields[4] = <<"*">>
        /\ minute \in FieldValues(fields[1], 0..59, mode)
        /\ hour \in FieldValues(fields[2], 0..23, mode)
        /\ weekday \in FieldValues(fields[5], 0..6, mode)

\* the recurring schedules a caller may pass
SendTimes == {NoText, <<"0", "9", ":", "0", "0">>, <<"0", "9", ":", "3", "0">>,
              <<"1", "0", ":", "0", "0">>}

RecurringSchedules ==
    [type : {"daily", "weekly", "monthly", "custom"},
     sendTime : SendTimes,
     daysOfWeek : {NoDays, <<>>, <<1>>, <<1, 3, 5>>},
     dayOfMonth : {NoDay, 1, 15},
     customCron : {NoText, <<"3", "0", " ", "8", " ", "*", " ", "*", " ", "2">>}]

\* nothing handed to the scheduler yet
NoRecurrence ==
    [schedule |-> [type |-> "none", sendTime |-> NoText, daysOfWeek |-> NoDays,
                   dayOfMonth |-> NoDay, customCron |-> NoText],
     cron |-> NoText]

----------------------------------------------------------------------------
\* uuids handed out by createDraft, in order
DraftIdSeq == <<"d1", "d2", "d3", "d4">>

DraftIds == {DraftIdSeq[i] : i \in 1..Len(DraftIdSeq)}

\* the approver argument of approveDraft
Approvers == {"alice"}

\* the rejection a Job Queue call may end with
QueueError == "queue unavailable"

\* mutant: the message does not name the campaign
NotFoundAnonymous(id) == "Campaign not found"

\* the message of the error thrown for an id the store does not hold
NotFound(id) == "Campaign " \o id \o " not found"

\* how a call ended: arg is the schedule argument of scheduleCampaign, NoSchedule otherwise
Ok(op, id) == [op |-> op, id |-> id, error |-> NoValue, arg |-> NoSchedule]

Failed(op, id, error) == [op |-> op, id |-> id, error |-> error, arg |-> NoSchedule]

WithArg(result, schedule) == [result EXCEPT !.arg = schedule]

\* the store and queue a handler works on, with the status assignments it has made
Current == [c |-> campaigns, q |-> queue, f |-> failedJobs, w |-> <<>>]

Without(f, id) == [x \in (DOMAIN f) \ {id} |-> f[x]]

\* campaign.status = s on the stored object, then updateCampaign(id, campaign)
AssignStatus(st, id, s) ==
    [st EXCEPT !.c = [@ EXCEPT ![id].status = s],
               !.w = Append(@, <<id, st.c[id].status, s>>)]

\* updateCampaign: { ...campaign, ...updates }; a status the updates carry is written as is
ApplyUpdates(st, id, updates) ==
    IF updates.status # NoValue THEN AssignStatus(st, id, updates.status) ELSE st

\* executeCampaign on an existing campaign
executeCampaign(st, id) ==
    LET s1 == AssignStatus(st, id, "active")
    IN  [s1 EXCEPT !.c = [@ EXCEPT ![id].sent = @ + SentPerRun]]

\* mutant: the delay is clamped at 0 and the job is always submitted
scheduleOneTimeCampaignAlwaysQueues(st, id, schedule) ==
    LET delay == schedule.startDate - now
    IN  [st EXCEPT !.q = Append(@, [campaignId |-> id, repeat |-> FALSE,
                                    fireAt |-> Horizon(now + (IF delay > 0 THEN delay ELSE 0)),
                                    state |-> "delayed",
                                    attemptsMade |-> 0, attempts |-> OneTimeAttempts,
                                    backoff |-> "exponential"])]

\* mutant: the job is submitted and the campaign is executed as well
scheduleOneTimeCampaignEager(st, id, schedule) ==
    LET delay == schedule.startDate - now
        s1 == IF delay > 0
              THEN [st EXCEPT !.q = Append(@, [campaignId |-> id, repeat |-> FALSE,
                                               fireAt |-> Horizon(now + delay), state |-> "delayed",
                                               attemptsMade |-> 0, attempts |-> OneTimeAttempts,
                                               backoff |-> "exponential"])]
              ELSE st
    IN  executeCampaign(s1, id)

\* scheduleOneTimeCampaign
scheduleOneTimeCampaign(st, id, schedule) ==
    LET delay == schedule.startDate - now
    IN  IF delay > 0
        THEN [st EXCEPT !.q = Append(@, [campaignId |-> id, repeat |-> FALSE,
                                         fireAt |-> Horizon(now + delay), state |-> "delayed",
                                         attemptsMade |-> 0, attempts |-> OneTimeAttempts,
                                         backoff |-> "exponential"])]
        ELSE executeCampaign(st, id)

\* scheduleRecurringCampaign
scheduleRecurringCampaign(st, id, schedule) ==
    [st EXCEPT !.q = Append(@, [campaignId |-> id, repeat |-> TRUE,
                                fireAt |-> Horizon(NextOccurrence(schedule, now)), state |-> "delayed",
                                attemptsMade |-> 0, attempts |-> DefaultAttempts,
                                backoff |-> NoValue])]

\* scheduleCampaign, lines 313-315: the schedule and the status are stored first
acceptSchedule(st, id, schedule) ==
    AssignStatus([st EXCEPT !.c = [@ EXCEPT ![id].schedule = schedule]], id, "scheduled")

\* whether scheduling with this schedule reaches campaignQueue.add
CallsAdd(schedule) == schedule.frequency # NoValue \/ schedule.startDate - now > 0

\* scheduleCampaign on an existing campaign
scheduleExisting(st, id, schedule) ==
    LET s2 == acceptSchedule(st, id, schedule)
    IN  IF schedule.frequency # NoValue
        THEN scheduleRecurringCampaign(s2, id, schedule)
        ELSE scheduleOneTimeCampaign(s2, id, schedule)

\* the elements of q at the indices outside S, in order
Keep(q, S) ==
    LET rest == (1..Len(q)) \ S
        nth(k) == CHOOSE i \in rest : Cardinality({j \in rest : j < i}) = k - 1
    IN  [k \in 1..Cardinality(rest) |-> q[nth(k)]]

\* mutant: getJobs(['waiting'])
PauseTargetsWaitingOnly(job, id) == job.state = "waiting" /\ job.campaignId = id

\* pauseCampaign: the jobs of getJobs(['waiting', 'delayed']) with job.data.campaignId === id
PauseTargets(job, id) == job.state \in {"waiting", "delayed"} /\ job.campaignId = id

\* cancelScheduledJobs: the same selection, removed instead of failed
CancelTargets(job, id) == job.state \in {"waiting", "delayed"} /\ job.campaignId = id

\* the jobs the loop over getJobs(['waiting', 'delayed']) acts on, as queue positions
Targets(q, id) == {i \in 1..Len(q) : PauseTargets(q[i], id)}

\* the targets the loop has dealt with when it reaches its n-th
Before(q, id, n) == {i \in Targets(q, id) : Cardinality({j \in Targets(q, id) : j < i}) < n - 1}

\* pauseCampaign on an existing campaign
pauseExisting(st, id) ==
    LET s1 == AssignStatus(st, id, "paused")
        hit(job) == PauseTargets(job, id)
        keep(job) == ~PauseTargets(job, id)
    IN  [s1 EXCEPT !.q = SelectSeq(@, keep),
                   !.f = @ \cup {st.q[j].campaignId : j \in {i \in 1..Len(st.q) : hit(st.q[i])}}]

\* mutant: the guard rejects only what the tests exercise, an active campaign
ResumeAllowedUnlessActive(campaign) == campaign.status # "active"

\* resumeCampaign: if (campaign.status !== 'paused') throw
ResumeAllowed(campaign) == campaign.status = "paused"

\* resumeCampaign on a paused campaign
resumeExisting(st, id) ==
    LET s1 == AssignStatus(st, id, "active")
    IN  scheduleExisting(s1, id, s1.c[id].schedule)

\* deleteCampaign: if (campaign.status === 'scheduled') cancelScheduledJobs(id)
CancelsOnDelete(campaign) == campaign.status = "scheduled"

\* deleteCampaign on an existing campaign
deleteExisting(st, id) ==
    LET keep(job) == ~CancelTargets(job, id)
        s1 == IF CancelsOnDelete(st.c[id]) THEN [st EXCEPT !.q = SelectSeq(@, keep)] ELSE st
    IN  [s1 EXCEPT !.c = Without(@, id)]

\* the bounds of the model: queue length and executions per campaign
WithinBounds(st) ==
    /\ Len(st.q) <= MaxQueue
    /\ \A id \in DOMAIN st.c : st.c[id].sent <= MaxRuns * SentPerRun

\* the handler's effect becomes the new state
Commit(st, op) ==
    /\ WithinBounds(st)
    /\ campaigns' = st.c
    /\ queue' = st.q
    /\ failedJobs' = st.f
    /\ writes' = st.w
    /\ lastOp' = op

----------------------------------------------------------------------------
Init ==
    /\ agents = <<>>
    /\ regOps = 0
    /\ regResult = [op |-> "init", id |-> NoValue, error |-> NoValue]
    /\ pc = "idle"
    /\ email = NoEmail
    /\ processedEmail = NoEmail
    /\ startAgents = <<>>
    /\ sortedAgents = <<>>
    /\ idx = 0
    /\ agentResults = <<>>
    /\ task = 0
    /\ ledger = <<>>
    /\ invocations = <<>>
    /\ inFlight = {}
    /\ thrown = {}
    /\ returned = NoResult
    /\ campaigns = <<>>
    /\ created = 0
    /\ queue = <<>>
    /\ failedJobs = {}
    /\ now = 1
    /\ lastOp = Ok("init", NoValue)
    /\ writes = <<>>
    /\ deleted = {}
    /\ drafts = <<>>
    /\ executing = {}
    /\ recurrence = NoRecurrence

runVars == <<pc, email, processedEmail, startAgents, sortedAgents, idx, agentResults, task,
             ledger, invocations, inFlight, thrown, returned>>

\* the unit object handed to registerAgent
Unit(id, type) ==
    [id |-> id, type |-> type, priority |-> DeclaredPriority(id), enabled |-> DeclaredEnabled(id)]

\* mutant: the run iterates the live Map, so a unit registered during a run joins it
registerAgentJoinsRun(id, type) ==
    /\ regOps < MaxRegOps
    /\ id \notin RegisteredIds
    /\ agents' = Append(agents, Unit(id, type))
    /\ regOps' = regOps + 1
    /\ regResult' = [op |-> "register", id |-> id, error |-> NoValue]
    /\ sortedAgents' = IF pc \in {"save1", "invoke", "await"}
                       THEN Append(sortedAgents, Unit(id, type))
                       ELSE sortedAgents
    /\ UNCHANGED <<pc, email, processedEmail, startAgents, idx, agentResults, task,
                   ledger, invocations, inFlight, thrown, returned>>
    /\ UNCHANGED campaignVars

\* registerAgent(agent) with an id the registry does not hold
registerAgent(id, type) ==
    /\ regOps < MaxRegOps
    /\ id \notin RegisteredIds        \* otherwise throws 'already registered'
    /\ agents' = Append(agents, Unit(id, type))
    /\ regOps' = regOps + 1
    /\ regResult' = [op |-> "register", id |-> id, error |-> NoValue]
    /\ UNCHANGED runVars
    /\ UNCHANGED campaignVars

\* mutant: no has() check; Map.set replaces the unit held under the id
registerAgentOverwrites(id, type) ==
    /\ regOps < MaxRegOps
    /\ id \in RegisteredIds
    /\ LET i == CHOOSE j \in 1..Len(agents) : agents[j].id = id
       IN  agents' = [agents EXCEPT ![i] = Unit(id, type)]
    /\ regOps' = regOps + 1
    /\ regResult' = [op |-> "register", id |-> id, error |-> NoValue]
    /\ UNCHANGED runVars
    /\ UNCHANGED campaignVars

\* registerAgent(agent) with an id the registry holds: lines 47-49 throw
registerAgentRejected(id, type) ==
    /\ regOps < MaxRegOps
    /\ id \in RegisteredIds
    /\ regOps' = regOps + 1
    /\ regResult' = [op |-> "register", id |-> id,
                     error |-> "Agent " \o id \o " is already registered"]
    /\ UNCHANGED agents
    /\ UNCHANGED runVars
    /\ UNCHANGED campaignVars

\* unregisterAgent(agentId) with an id the registry holds
unregisterAgent(id) ==
    /\ regOps < MaxRegOps
    /\ id \in RegisteredIds           \* otherwise throws 'not found'
    /\ LET i == CHOOSE j \in 1..Len(agents) : agents[j].id = id
       IN  agents' = RemoveAt(agents, i)
    /\ regOps' = regOps + 1
    /\ regResult' = [op |-> "unregister", id |-> id, error |-> NoValue]
    /\ UNCHANGED runVars
    /\ UNCHANGED campaignVars

\* unregisterAgent(agentId) with an id the registry does not hold: lines 56-59 throw
unregisterAgentRejected(id) ==
    /\ regOps < MaxRegOps
    /\ id \notin RegisteredIds
    /\ regOps' = regOps + 1
    /\ regResult' = [op |-> "unregister", id |-> id, error |-> "Agent " \o id \o " not found"]
    /\ UNCHANGED agents
    /\ UNCHANGED runVars
    /\ UNCHANGED campaignVars

\* getAgents(): Array.from(this.agents.values())
getAgents == agents

\* processEmailInternal, lines 72-80: copy the message, snapshot and sort the registry
StartRun(e) ==
    /\ pc = "idle"
    /\ email' = e
    /\ processedEmail' = e
    /\ agentResults' = <<>>
    /\ startAgents' = agents
    /\ sortedAgents' = SortAgents(agents)
    /\ idx' = 1
    /\ pc' = IF agents = <<>> THEN "return" ELSE "save1"
    /\ UNCHANGED <<agents, regOps, regResult, task, ledger, invocations, inFlight, thrown, returned>>
    /\ UNCHANGED campaignVars

\* mutant: the row is keyed by the message, so a unit's first save replaces the row
\* the unit before it left
SaveTaskProcessingReplaces ==
    /\ pc = "save1"
    /\ LET row == [agentId |-> sortedAgents[idx].id, emailId |-> email.id,
                   parameters |-> processedEmail,
                   status |-> "processing", error |-> NoValue, saves |-> 1]
       IN  IF ledger = <<>>
           THEN ledger' = <<row>> /\ task' = 1
           ELSE /\ ledger' = [ledger EXCEPT ![Len(ledger)] = [row EXCEPT !.saves = ledger[Len(ledger)].saves + 1]]
                /\ task' = Len(ledger)
    /\ pc' = "invoke"
    /\ UNCHANGED <<agents, regOps, regResult, email, processedEmail, startAgents, sortedAgents, idx, agentResults,
                   invocations, inFlight, thrown, returned>>
    /\ UNCHANGED campaignVars

\* lines 84-94: build the task in status 'processing' and persist it
SaveTaskProcessing ==
    /\ pc = "save1"
    /\ ledger' = Append(ledger, [agentId |-> sortedAgents[idx].id, emailId |-> email.id,
                                 parameters |-> processedEmail,
                                 status |-> "processing", error |-> NoValue, saves |-> 1])
    /\ task' = Len(ledger) + 1
    /\ pc' = "invoke"
    /\ UNCHANGED <<agents, regOps, regResult, email, processedEmail, startAgents, sortedAgents, idx, agentResults,
                   invocations, inFlight, thrown, returned>>
    /\ UNCHANGED campaignVars

\* line 96: the call agent.process(processedEmail)
InvokeAgent ==
    /\ pc = "invoke"
    /\ invocations' = Append(invocations, <<sortedAgents[idx].id, processedEmail>>)
    /\ inFlight' = inFlight \cup {sortedAgents[idx].id}
    /\ pc' = "await"
    /\ UNCHANGED <<agents, regOps, regResult, email, processedEmail, startAgents, sortedAgents, idx, agentResults,
                   task, ledger, thrown, returned>>
    /\ UNCHANGED campaignVars

NextIteration == IF idx < Len(sortedAgents) THEN "save1" ELSE "return"

\* mutant: the merge does not look at result.success
AgentResolvesMergesAlways(r) ==
    /\ pc = "await"
    /\ inFlight' = inFlight \ {sortedAgents[idx].id}
    /\ agentResults' = (sortedAgents[idx].id :> r) @@ agentResults
    /\ processedEmail' = IF r.modifications # NoModifications
                         THEN Merge(processedEmail, r.modifications)
                         ELSE processedEmail
    /\ ledger' = [ledger EXCEPT ![task] =
                    [@ EXCEPT !.status = IF r.success THEN "completed" ELSE "failed",
                              !.error = IF ~r.success /\ r.error # NoValue
                                        THEN r.error ELSE NoValue,
                              !.saves = @ + 1]]
    /\ idx' = idx + 1
    /\ pc' = NextIteration
    /\ UNCHANGED <<agents, regOps, regResult, email, startAgents, sortedAgents, task, invocations, thrown, returned>>
    /\ UNCHANGED campaignVars

\* lines 96-111: process resolved with result r; record it, merge, finalize the task
AgentResolves(r) ==
    /\ pc = "await"
    /\ inFlight' = inFlight \ {sortedAgents[idx].id}
    /\ agentResults' = (sortedAgents[idx].id :> r) @@ agentResults
    /\ processedEmail' = IF r.success /\ r.modifications # NoModifications
                         THEN Merge(processedEmail, r.modifications)
                         ELSE processedEmail
    /\ ledger' = [ledger EXCEPT ![task] =
                    [@ EXCEPT !.status = IF r.success THEN "completed" ELSE "failed",
                              !.error = IF ~r.success /\ r.error # NoValue
                                        THEN r.error ELSE NoValue,
                              !.saves = @ + 1]]
    /\ idx' = idx + 1
    /\ pc' = NextIteration
    /\ UNCHANGED <<agents, regOps, regResult, email, startAgents, sortedAgents, task, invocations, thrown, returned>>
    /\ UNCHANGED campaignVars

\* mutant: the try/catch encloses the loop, so a throw ends the run
AgentThrowsAborts(t) ==
    /\ pc = "await"
    /\ inFlight' = inFlight \ {sortedAgents[idx].id}
    /\ agentResults' = (sortedAgents[idx].id :> [success |-> FALSE,
                                                 modifications |-> NoModifications,
                                                 error |-> ErrorMessage(t)]) @@ agentResults
    /\ thrown' = thrown \cup {sortedAgents[idx].id}
    /\ idx' = idx + 1
    /\ pc' = "return"
    /\ UNCHANGED <<agents, regOps, regResult, email, processedEmail, startAgents, sortedAgents, task, ledger,
                   invocations, returned>>
    /\ UNCHANGED campaignVars

\* mutant: the catch block only logs
AgentThrowsUnrecorded(t) ==
    /\ pc = "await"
    /\ inFlight' = inFlight \ {sortedAgents[idx].id}
    /\ thrown' = thrown \cup {sortedAgents[idx].id}
    /\ idx' = idx + 1
    /\ pc' = NextIteration
    /\ UNCHANGED <<agents, regOps, regResult, email, processedEmail, startAgents, sortedAgents, task, ledger,
                   invocations, agentResults, returned>>
    /\ UNCHANGED campaignVars

\* lines 117-123: process threw t; the catch block records a failure outcome and nothing else
AgentThrows(t) ==
    /\ pc = "await"
    /\ inFlight' = inFlight \ {sortedAgents[idx].id}
    /\ agentResults' = (sortedAgents[idx].id :> [success |-> FALSE, modifications |-> NoModifications,
                                                 error |-> ErrorMessage(t)]) @@ agentResults
    /\ thrown' = thrown \cup {sortedAgents[idx].id}
    /\ idx' = idx + 1
    /\ pc' = NextIteration
    /\ UNCHANGED <<agents, regOps, regResult, email, processedEmail, startAgents, sortedAgents, task, ledger,
                   invocations, returned>>
    /\ UNCHANGED campaignVars

\* lines 126-133: return { email, agentResults, finalEmail: processedEmail, processingTime }
ReturnResult ==
    /\ pc = "return"
    /\ returned' = [email |-> email, agentResults |-> agentResults,
                    finalEmail |-> processedEmail]
    /\ pc' = "done"
    /\ UNCHANGED <<agents, regOps, regResult, email, processedEmail, startAgents, sortedAgents, idx, agentResults,
                   task, ledger, invocations, inFlight, thrown>>
    /\ UNCHANGED campaignVars

Next ==
    \/ \E id \in AgentIds, type \in AgentTypes : registerAgent(id, type)
    \/ \E id \in AgentIds : unregisterAgent(id)
    \/ \E e \in InputEmails : StartRun(e)
    \/ SaveTaskProcessing
    \/ InvokeAgent
    \/ \E r \in ProcessResults : AgentResolves(r)
    \/ \E t \in ThrownValues : AgentThrows(t)
    \/ ReturnResult

Spec == Init /\ [][Next]_vars

\* what a rejected saveAgentTask throws: the driver's error passed to reject(err)
SaveErrors == {"SQLITE_BUSY: database is locked"}

\* line 94 rejects: the catch block records a failure outcome; the unit is not invoked
SaveTaskProcessingRejects(err) ==
    /\ pc = "save1"
    /\ agentResults' = (sortedAgents[idx].id :> [success |-> FALSE,
                                                 modifications |-> NoModifications,
                                                 error |-> err]) @@ agentResults
    /\ idx' = idx + 1
    /\ pc' = NextIteration
    /\ UNCHANGED <<agents, regOps, regResult, email, processedEmail, startAgents, sortedAgents,
                   task, ledger, invocations, inFlight, thrown, returned>>
    /\ UNCHANGED campaignVars

\* lines 96-111 with line 111 rejecting: the outcome was recorded and the merge done
\* before the save; the catch block then replaces the outcome by a failure outcome
AgentResolvesSaveRejects(r, err) ==
    /\ pc = "await"
    /\ inFlight' = inFlight \ {sortedAgents[idx].id}
    /\ processedEmail' = IF r.success /\ r.modifications # NoModifications
                         THEN Merge(processedEmail, r.modifications)
                         ELSE processedEmail
    /\ agentResults' = (sortedAgents[idx].id :> [success |-> FALSE,
                                                 modifications |-> NoModifications,
                                                 error |-> err]) @@ agentResults
    /\ idx' = idx + 1
    /\ pc' = NextIteration
    /\ UNCHANGED <<agents, regOps, regResult, email, startAgents, sortedAgents, task, ledger,
                   invocations, thrown, returned>>
    /\ UNCHANGED campaignVars

\* the pipeline with a task ledger whose writes can fail
LedgerFaultNext ==
    \/ \E id \in AgentIds, type \in AgentTypes : registerAgent(id, type)
    \/ \E id \in AgentIds : unregisterAgent(id)
    \/ \E e \in InputEmails : StartRun(e)
    \/ SaveTaskProcessing
    \/ \E err \in SaveErrors : SaveTaskProcessingRejects(err)
    \/ InvokeAgent
    \/ \E r \in ProcessResults : AgentResolves(r)
    \/ \E r \in ProcessResults, err \in SaveErrors : AgentResolvesSaveRejects(r, err)
    \/ \E t \in ThrownValues : AgentThrows(t)
    \/ ReturnResult

LedgerFaultSpec == Init /\ [][LedgerFaultNext]_vars

\* the registry alone, with the calls that throw
RegistryNext ==
    \/ \E id \in AgentIds, type \in AgentTypes : registerAgent(id, type)
    \/ \E id \in AgentIds, type \in AgentTypes : registerAgentRejected(id, type)
    \/ \E id \in AgentIds : unregisterAgent(id)
    \/ \E id \in AgentIds : unregisterAgentRejected(id)

RegistrySpec == Init /\ [][RegistryNext]_vars

----------------------------------------------------------------------------
(* CampaignService operations; each is one call running to completion *)

\* getCampaign(id): the stored campaign, or null
NoCampaign == [status |-> NoValue, schedule |-> NoSchedule, sent |-> 0, approvedBy |-> NoValue]

getCampaign(id) == IF id \in DOMAIN campaigns THEN campaigns[id] ELSE NoCampaign

\* mutant: the caller's fields are spread over the defaults, status included
createCampaignKeepsStatus(data) ==
    /\ created < Len(CampaignIdSeq)
    /\ LET id == CampaignIdSeq[created + 1]
           campaign == [status |-> IF data.status # NoValue THEN data.status ELSE "draft",
                        schedule |-> IF data.schedule # NoSchedule THEN data.schedule
                                     ELSE [startDate |-> now, frequency |-> NoValue],
                        sent |-> 0,
                        approvedBy |-> NoValue]
       IN  Commit([Current EXCEPT !.c = (id :> campaign) @@ @], Ok("create", id))
    /\ created' = created + 1
    /\ UNCHANGED <<now, deleted, drafts>>
    /\ UNCHANGED otherVars

\* createCampaign(campaignData): status is 'draft' whatever the caller supplies
createCampaign(data) ==
    /\ created < Len(CampaignIdSeq)
    /\ LET id == CampaignIdSeq[created + 1]
           campaign == [status |-> "draft",
                        schedule |-> IF data.schedule # NoSchedule THEN data.schedule
                                     ELSE [startDate |-> now, frequency |-> NoValue],
                        sent |-> 0,
                        approvedBy |-> NoValue]
       IN  Commit([Current EXCEPT !.c = (id :> campaign) @@ @], Ok("create", id))
    /\ created' = created + 1
    /\ UNCHANGED <<now, deleted, drafts>>
    /\ UNCHANGED otherVars

\* updateCampaign(id, updates)
updateCampaign(id, updates) ==
    /\ IF id \in DOMAIN campaigns
       THEN Commit(ApplyUpdates(Current, id, updates), Ok("update", id))
       ELSE Commit(Current, Failed("update", id, Wrap("update", NotFound(id))))
    /\ UNCHANGED <<created, now, deleted, drafts>>
    /\ UNCHANGED otherVars

\* scheduleCampaign(id, schedule)
scheduleCampaign(id, schedule) ==
    /\ IF id \in DOMAIN campaigns
       THEN Commit(scheduleExisting(Current, id, schedule), WithArg(Ok("schedule", id), schedule))
       ELSE Commit(Current, WithArg(Failed("schedule", id, Wrap("schedule", NotFound(id))), schedule))
    /\ UNCHANGED <<created, now, deleted, drafts>>
    /\ UNCHANGED otherVars

\* pauseCampaign(id)
pauseCampaign(id) ==
    /\ IF id \in DOMAIN campaigns
       THEN Commit(pauseExisting(Current, id), Ok("pause", id))
       ELSE Commit(Current, Failed("pause", id, Wrap("pause", NotFound(id))))
    /\ UNCHANGED <<created, now, deleted, drafts>>
    /\ UNCHANGED otherVars

\* resumeCampaign(id)
resumeCampaign(id) ==
    /\ IF id \notin DOMAIN campaigns
       THEN Commit(Current, Failed("resume", id, Wrap("resume", NotFound(id))))
       ELSE IF ~ResumeAllowed(campaigns[id])
       THEN Commit(Current, Failed("resume", id, Wrap("resume", "Campaign is not paused")))
       ELSE Commit(resumeExisting(Current, id), Ok("resume", id))
    /\ UNCHANGED <<created, now, deleted, drafts>>
    /\ UNCHANGED otherVars

\* deleteCampaign(id): false for an unknown id, otherwise true
deleteCampaign(id) ==
    /\ IF id \in DOMAIN campaigns
       THEN /\ Commit(deleteExisting(Current, id), Ok("delete", id))
            /\ deleted' = deleted \cup {id}
       ELSE /\ Commit(Current, Ok("delete-false", id))
            /\ UNCHANGED deleted
    /\ UNCHANGED <<created, now, drafts>>
    /\ UNCHANGED otherVars

\* getMetrics(campaignId)
getMetrics(id) ==
    /\ IF id \in DOMAIN campaigns
       THEN Commit(Current, Ok("metrics", id))
       ELSE Commit(Current, Failed("metrics", id, "Failed to get metrics: " \o NotFound(id)))
    /\ UNCHANGED <<created, now, deleted, drafts>>
    /\ UNCHANGED otherVars

----------------------------------------------------------------------------
(* The job queue and its 'send-campaign' processor *)

\* time passes
Tick ==
    /\ now < MaxTime
    /\ now' = now + 1
    /\ lastOp' = Ok("tick", NoValue)
    /\ writes' = <<>>
    /\ UNCHANGED <<campaigns, created, queue, failedJobs, deleted, drafts>>
    /\ UNCHANGED otherVars

\* a delayed job whose time has come moves to the waiting list
PromoteJob(i) ==
    /\ i \in 1..Len(queue)
    /\ queue[i].state = "delayed"
    /\ queue[i].fireAt <= now
    /\ queue' = [queue EXCEPT ![i].state = "waiting"]
    /\ lastOp' = Ok("promote", queue[i].campaignId)
    /\ writes' = <<>>
    /\ UNCHANGED <<campaigns, created, failedJobs, now, deleted, drafts>>
    /\ UNCHANGED otherVars

\* the worker takes a waiting job: a repeating job gets its next occurrence queued, then
\* the processor runs executeCampaign(job.data.campaignId)
ProcessJob(i) ==
    /\ i \in 1..Len(queue)
    /\ queue[i].state = "waiting"
    /\ LET job == queue[i]
           id == job.campaignId
           rest == RemoveAt(queue, i)
           taken == IF job.repeat
                    THEN Append(rest, [job EXCEPT !.fireAt = Horizon(now + 1), !.state = "delayed",
                                                  !.attemptsMade = 0])
                    ELSE rest
           st == [Current EXCEPT !.q = taken]
       IN  IF id \in DOMAIN campaigns
           THEN Commit(executeCampaign(st, id), Ok("job", id))
           ELSE IF job.attemptsMade + 1 < job.attempts
           THEN Commit([st EXCEPT !.q = Append(@, [job EXCEPT
                                        !.attemptsMade = @ + 1,
                                        !.state = "delayed",
                                        !.fireAt = Horizon(now + Backoff(job.attemptsMade + 1))])],
                       Failed("job", id, NotFound(id)))
           ELSE Commit([st EXCEPT !.f = @ \cup {id}],
                       Failed("job", id, NotFound(id)))
    /\ UNCHANGED <<created, now, deleted, drafts>>
    /\ UNCHANGED otherVars

----------------------------------------------------------------------------
(* CampaignService operations in which a Job Queue call rejects *)

\* scheduleCampaign(id, schedule) when campaignQueue.add rejects
scheduleCampaignQueueRejects(id, schedule) ==
    /\ id \in DOMAIN campaigns
    /\ CallsAdd(schedule)
    /\ Commit(acceptSchedule(Current, id, schedule),
              WithArg(Failed("schedule", id, Wrap("schedule", QueueError)), schedule))
    /\ UNCHANGED <<created, now, deleted, drafts>>
    /\ UNCHANGED otherVars

\* pauseCampaign(id) when getJobs rejects (n = 0) or moveToFailed rejects on the n-th
\* job of the campaign; the jobs before it have been moved
pauseCampaignQueueRejects(id, n) ==
    /\ id \in DOMAIN campaigns
    /\ n <= Cardinality(Targets(queue, id))
    /\ LET s1 == AssignStatus(Current, id, "paused")
           moved == Before(queue, id, n)
       IN  Commit([s1 EXCEPT !.q = Keep(queue, moved),
                             !.f = @ \cup {queue[j].campaignId : j \in moved}],
                  Failed("pause", id, Wrap("pause", QueueError)))
    /\ UNCHANGED <<created, now, deleted, drafts>>
    /\ UNCHANGED otherVars

\* resumeCampaign(id) when the add of the nested scheduleCampaign rejects
resumeCampaignQueueRejects(id) ==
    /\ id \in DOMAIN campaigns
    /\ ResumeAllowed(campaigns[id])
    /\ CallsAdd(campaigns[id].schedule)
    /\ LET s1 == AssignStatus(Current, id, "active")
       IN  Commit(acceptSchedule(s1, id, s1.c[id].schedule),
                  Failed("resume", id, Wrap("resume", Wrap("schedule", QueueError))))
    /\ UNCHANGED <<created, now, deleted, drafts>>
    /\ UNCHANGED otherVars

\* deleteCampaign(id) when getJobs rejects (n = 0) or remove rejects on the n-th job of
\* the campaign; the jobs before it have been removed, the campaign is still stored
deleteCampaignQueueRejects(id, n) ==
    /\ id \in DOMAIN campaigns
    /\ CancelsOnDelete(campaigns[id])
    /\ n <= Cardinality(Targets(queue, id))
    /\ Commit([Current EXCEPT !.q = Keep(queue, Before(queue, id, n))],
              Failed("delete", id, Wrap("delete", QueueError)))
    /\ UNCHANGED <<created, now, deleted, drafts>>
    /\ UNCHANGED otherVars

----------------------------------------------------------------------------
(* Drafts *)

\* createDraft(draftData): status is 'draft'
createDraft(campaignId) ==
    /\ Cardinality(DOMAIN drafts) < MaxDrafts
    /\ LET id == DraftIdSeq[Cardinality(DOMAIN drafts) + 1]
       IN  /\ drafts' = (id :> [status |-> "draft", campaignId |-> campaignId]) @@ drafts
           /\ lastOp' = Ok("createDraft", id)
    /\ writes' = <<>>
    /\ UNCHANGED <<campaigns, created, queue, failedJobs, now, deleted>>
    /\ UNCHANGED otherVars

\* approveDraft(draftId, approver)
approveDraft(draftId, approver) ==
    /\ IF draftId \notin DOMAIN drafts
       THEN /\ lastOp' = Failed("approveDraft", draftId,
                                "Failed to approve draft: Draft " \o draftId \o " not found")
            /\ UNCHANGED <<drafts, campaigns>>
       ELSE /\ drafts' = [drafts EXCEPT ![draftId].status = "approved"]
            /\ lastOp' = Ok("approveDraft", draftId)
            /\ LET cid == drafts[draftId].campaignId
               IN  IF cid # NoValue /\ cid \in DOMAIN campaigns
                   THEN campaigns' = [campaigns EXCEPT ![cid].approvedBy = approver]
                   ELSE UNCHANGED campaigns
    /\ writes' = <<>>
    /\ UNCHANGED <<created, queue, failedJobs, now, deleted>>
    /\ UNCHANGED otherVars

\* rejectDraft(draftId, reason)
rejectDraft(draftId) ==
    /\ IF draftId \notin DOMAIN drafts
       THEN /\ lastOp' = Failed("rejectDraft", draftId,
                                "Failed to reject draft: Draft " \o draftId \o " not found")
            /\ UNCHANGED drafts
       ELSE /\ drafts' = [drafts EXCEPT ![draftId].status = "rejected"]
            /\ lastOp' = Ok("rejectDraft", draftId)
    /\ writes' = <<>>
    /\ UNCHANGED <<campaigns, created, queue, failedJobs, now, deleted>>
    /\ UNCHANGED otherVars

----------------------------------------------------------------------------
(* The 'send-campaign' callback step by step: executeCampaign is suspended at the
   await of its first updateCampaign and other calls run in between *)

\* a job whose callback threw: queued again while attempts remain, else in the failed list
failJob(st, job) ==
    IF job.attemptsMade + 1 < job.attempts
    THEN [st EXCEPT !.q = Append(@, [job EXCEPT
                              !.attemptsMade = @ + 1,
                              !.state = "delayed",
                              !.fireAt = Horizon(now + Backoff(job.attemptsMade + 1))])]
    ELSE [st EXCEPT !.f = @ \cup {job.campaignId}]

\* the state after the worker has taken the waiting job at position i
takeJob(i) ==
    LET job == queue[i]
        rest == RemoveAt(queue, i)
    IN  [Current EXCEPT !.q = IF job.repeat
                              THEN Append(rest, [job EXCEPT !.fireAt = Horizon(now + 1),
                                                            !.state = "delayed",
                                                            !.attemptsMade = 0])
                              ELSE rest]

\* executeCampaign, lines 635-641: look the campaign up, assign status 'active' to the
\* object found and store it; the callback keeps that object in its local `campaign`
BeginJob(i) ==
    /\ executing = {}
    /\ i \in 1..Len(queue)
    /\ queue[i].state = "waiting"
    /\ LET job == queue[i]
           id == job.campaignId
       IN  IF id \in DOMAIN campaigns
           THEN /\ Commit(AssignStatus(takeJob(i), id, "active"), Ok("job-start", id))
                /\ executing' = {[job |-> job,
                                  campaign |-> [campaigns[id] EXCEPT !.status = "active"]]}
           ELSE /\ Commit(failJob(takeJob(i), job), Failed("job", id, NotFound(id)))
                /\ UNCHANGED executing
    /\ UNCHANGED <<created, now, deleted, drafts, recurrence>>
    /\ UNCHANGED pipelineVars

\* executeCampaign, lines 646-648: campaign.metrics.sent += 100 on the shared metrics
\* object, then updateCampaign(campaignId, campaign) spreads the local object, status
\* included, over whatever is stored by now
FinishJob ==
    /\ executing # {}
    /\ LET x == CHOOSE e \in executing : TRUE
           id == x.job.campaignId
       IN  IF id \in DOMAIN campaigns
           THEN LET s1 == AssignStatus(Current, id, x.campaign.status)
                    s2 == [s1 EXCEPT !.c = [@ EXCEPT ![id].schedule = x.campaign.schedule,
                                                     ![id].approvedBy = x.campaign.approvedBy,
                                                     ![id].sent = @ + SentPerRun]]
                IN  Commit(s2, Ok("job", id))
           ELSE Commit(failJob(Current, x.job),
                       Failed("job", id, Wrap("update", NotFound(id))))
    /\ executing' = {}
    /\ UNCHANGED <<created, now, deleted, drafts, recurrence>>
    /\ UNCHANGED pipelineVars

CreateData == [status : {NoValue, "active", "paused"}, schedule : Schedules \cup {NoSchedule}]

Updates == [status : CampaignStatuses \cup {NoValue}]

CampaignNext ==
    \/ \E data \in CreateData : createCampaign(data)
    \/ \E id \in CampaignIds, schedule \in Schedules : scheduleCampaign(id, schedule)
    \/ \E id \in CampaignIds : pauseCampaign(id)
    \/ \E id \in CampaignIds : resumeCampaign(id)
    \/ \E id \in CampaignIds : deleteCampaign(id)
    \/ \E id \in CampaignIds, updates \in Updates : updateCampaign(id, updates)
    \/ \E id \in CampaignIds : getMetrics(id)
    \/ Tick
    \/ \E i \in 1..MaxQueue : PromoteJob(i)
    \/ \E i \in 1..MaxQueue : ProcessJob(i)

CampaignSpec == Init /\ [][CampaignNext]_vars

\* the campaign operations with a Job Queue whose calls may reject
FaultNext ==
    \/ CampaignNext
    \/ \E id \in CampaignIds, schedule \in Schedules : scheduleCampaignQueueRejects(id, schedule)
    \/ \E id \in CampaignIds, n \in 0..MaxQueue : pauseCampaignQueueRejects(id, n)
    \/ \E id \in CampaignIds : resumeCampaignQueueRejects(id)
    \/ \E id \in CampaignIds, n \in 0..MaxQueue : deleteCampaignQueueRejects(id, n)

FaultSpec == Init /\ [][FaultNext]_vars

\* a campaign that only ever has a one-time schedule: created with one, scheduled once
\* from draft, then paused, resumed, run by its jobs, looked up and deleted
OneTimeSchedules == {schedule \in Schedules : schedule.frequency = NoValue}

OneTimeNext ==
    \/ \E data \in CreateData :
          data.schedule \in OneTimeSchedules \cup {NoSchedule} /\ createCampaign(data)
    \/ \E id \in CampaignIds, schedule \in OneTimeSchedules :
          /\ id \in DOMAIN campaigns
          /\ campaigns[id].status = "draft"
          /\ scheduleCampaign(id, schedule)
    \/ \E id \in CampaignIds : pauseCampaign(id)
    \/ \E id \in CampaignIds : resumeCampaign(id)
    \/ \E id \in CampaignIds : deleteCampaign(id)
    \/ \E id \in CampaignIds : getMetrics(id)
    \/ Tick
    \/ \E i \in 1..MaxQueue : PromoteJob(i)
    \/ \E i \in 1..MaxQueue : ProcessJob(i)

OneTimeSpec == Init /\ [][OneTimeNext]_vars

\* the campaign operations interleaved with a callback in progress
InterleaveNext ==
    \/ \E data \in CreateData : createCampaign(data)
    \/ \E id \in CampaignIds, schedule \in Schedules : scheduleCampaign(id, schedule)
    \/ \E id \in CampaignIds : pauseCampaign(id)
    \/ \E id \in CampaignIds : resumeCampaign(id)
    \/ \E id \in CampaignIds : deleteCampaign(id)
    \/ Tick
    \/ \E i \in 1..MaxQueue : PromoteJob(i)
    \/ \E i \in 1..MaxQueue : BeginJob(i)
    \/ FinishJob

InterleaveSpec == Init /\ [][InterleaveNext]_vars

\* campaigns and the drafts linked to them
DraftNext ==
    \/ \E campaignId \in CampaignIds \cup {NoValue} : createDraft(campaignId)
    \/ \E data \in CreateData : createCampaign(data)
    \/ \E draftId \in DraftIds, approver \in Approvers : approveDraft(draftId, approver)
    \/ \E draftId \in DraftIds : rejectDraft(draftId)

DraftSpec == Init /\ [][DraftNext]_vars

----------------------------------------------------------------------------
(* The recurrence derivation alone *)

\* scheduleRecurringCampaign(campaignId, schedule): the pattern handed to the queue as
\* repeat.cron
deriveCron(schedule) ==
    /\ recurrence' = [schedule |-> schedule, cron |-> cronPattern(schedule)]
    /\ UNCHANGED <<campaigns, created, queue, failedJobs, now, lastOp, writes, deleted, drafts,
                   executing>>
    /\ UNCHANGED pipelineVars

CronNext == \E schedule \in RecurringSchedules : deriveCron(schedule)

CronSpec == Init /\ [][CronNext]_vars

----------------------------------------------------------------------------
(* Properties of the pipeline *)

\* the type-priority table as the specification lists it, highest first
TypeOrder == <<"security", "filter", "categorizer", "prioritizer",
               "summarizer", "translator", "responder", "scheduler">>

\* rank of a type: 8 for the first of TypeOrder down to 1 for the last, 0 for any other type
TypeRank(type) ==
    IF \E i \in 1..Len(TypeOrder) : TypeOrder[i] = type
    THEN Len(TypeOrder) + 1 - (CHOOSE i \in 1..Len(TypeOrder) : TypeOrder[i] = type)
    ELSE 0

StartIds == {startAgents[i].id : i \in 1..Len(startAgents)}

TypeOf(id) == (CHOOSE i \in 1..Len(startAgents) : startAgents[i].id = id)

InvokedId(k) == invocations[k][1]

InvokedType(k) == startAgents[TypeOf(InvokedId(k))].type

TimesInvoked(id) == Cardinality({k \in 1..Len(invocations) : InvokedId(k) = id})

\* a later modification overrides an earlier value of the same field
Override(e, m) ==
    [f \in DOMAIN e |-> IF f \in Fields THEN (IF m[f] = NoValue THEN e[f] ELSE m[f]) ELSE e[f]]

\* the input with the modifications of the successful ones among the first n invoked units
RECURSIVE Accumulated(_)
Accumulated(n) ==
    IF n = 0 THEN email
    ELSE LET r == agentResults[InvokedId(n)]
         IN  IF r.success THEN Override(Accumulated(n - 1), r.modifications)
             ELSE Accumulated(n - 1)

Settled(k) == InvokedId(k) \in DOMAIN agentResults

\* C1: finalEmail is the input with the modifications of exactly the successful units
\* merged in invocation order, which is type-priority order; each unit is invoked with
\* the message accumulated from the successful units before it.
C1_SequentialMerge ==
    /\ \A k \in 1..Len(invocations) :
          /\ invocations[k][2] = Accumulated(k - 1)
          /\ \A j \in 1..(k - 1) : TypeRank(InvokedType(j)) >= TypeRank(InvokedType(k))
    /\ pc = "done" =>
          /\ returned.finalEmail = Accumulated(Len(invocations))
          /\ {InvokedId(k) : k \in 1..Len(invocations)} = StartIds

\* two successful units write the same field around a unit that threw; the later one wins
C1_Witness ==
    /\ pc = "done"
    /\ Len(invocations) = 3
    /\ agentResults[InvokedId(1)].success
    /\ agentResults[InvokedId(1)].modifications.category = "spam"
    /\ InvokedId(2) \in thrown
    /\ agentResults[InvokedId(3)].success
    /\ agentResults[InvokedId(3)].modifications.category = "updates"
    /\ returned.finalEmail.category = "updates"
    /\ returned.finalEmail.priority = "high"

\* C2: units are invoked one at a time and in descending order of the type-priority
\* table, whatever the registration order and the declared numeric priorities.
C2_TypePriorityOrder ==
    /\ Cardinality(inFlight) <= 1
    /\ \A j, k \in 1..Len(invocations) :
          j < k => /\ TypeRank(InvokedType(j)) >= TypeRank(InvokedType(k))
                   /\ InvokedType(j) # InvokedType(k) /\ TypeRank(InvokedType(j)) > 0
                         => TypeRank(InvokedType(j)) > TypeRank(InvokedType(k))
    /\ pc = "await" => inFlight = {sortedAgents[idx].id}

\* three units of three ranks, registered lowest rank first and declaring numeric
\* priorities that rank them the other way round
C2_Witness ==
    /\ pc = "done"
    /\ Len(invocations) = 3
    /\ Len(startAgents) = 3
    /\ InvokedId(1) = startAgents[3].id
    /\ InvokedId(3) = startAgents[1].id
    /\ TypeRank(InvokedType(1)) > TypeRank(InvokedType(2))
    /\ TypeRank(InvokedType(2)) > TypeRank(InvokedType(3))
    /\ DeclaredPriority(InvokedId(1)) < DeclaredPriority(InvokedId(2))
    /\ DeclaredPriority(InvokedId(2)) < DeclaredPriority(InvokedId(3))

\* C3: when a unit's process call throws, the ledger entry created for that unit and
\* message is finalized with status failed and a non-empty error.
C3_ThrownTaskFailed ==
    \A k \in 1..Len(ledger) :
        ledger[k].agentId \in thrown =>
            /\ ledger[k].status = "failed"
            /\ ledger[k].error # NoValue

C5_OutcomePerUnit ==
    /\ pc = "done" =>
          /\ DOMAIN returned.agentResults = StartIds
          /\ returned.email = email
          /\ \A id \in thrown :
                /\ ~returned.agentResults[id].success
                /\ returned.agentResults[id].error \in {"boom", "Unknown error"}
    /\ \A id \in thrown : id \in DOMAIN agentResults /\ ~agentResults[id].success
    /\ pc # "idle" => DOMAIN agentResults \subseteq StartIds

\* a run over a unit that succeeded, one that returned failure and one that threw
C5_Witness ==
    /\ pc = "done"
    /\ Cardinality(StartIds) = 3
    /\ Cardinality(thrown) = 1
    /\ \E id \in StartIds : returned.agentResults[id].success
    /\ \E id \in StartIds \ thrown : ~returned.agentResults[id].success

----------------------------------------------------------------------------
(* Properties of the campaign state machine and scheduler *)

\* the transitions of the campaign state machine
ListedTransitions ==
    { <<"draft", "scheduled">>, <<"scheduled", "active">>, <<"active", "paused">>,
      <<"active", "completed">>, <<"paused", "active">> }
    \cup { <<s, "cancelled">> : s \in {"draft", "scheduled", "active", "paused"} }

JobsOf(id) == {i \in 1..Len(queue) : queue[i].campaignId = id}

\* C6: the status of a campaign changes only along the listed transitions, whichever
\* operation or job callback makes the change.
C6_OnlyListedTransitions ==
    \A k \in 1..Len(writes) :
        writes[k][2] # writes[k][3] => <<writes[k][2], writes[k][3]>> \in ListedTransitions

\* C7: resumeCampaign on a paused campaign ends with the stored status active.
C7_ResumeYieldsActive ==
    (lastOp.op = "resume" /\ lastOp.error = NoValue) =>
        campaigns[lastOp.id].status = "active"

\* C8: resumeCampaign on an existing campaign that is not paused fails with
\* 'Campaign is not paused', leaves status and schedule unchanged and submits no job.
C8_ResumeNonPausedRejected ==
    [][\A id \in CampaignIds :
          (/\ lastOp'.op = "resume"
           /\ lastOp'.id = id
           /\ id \in DOMAIN campaigns
           /\ campaigns[id].status # "paused")
          => /\ lastOp'.error = "Failed to resume campaign: Campaign is not paused"
             /\ campaigns' = campaigns
             /\ queue' = queue
             /\ failedJobs' = failedJobs]_vars

\* a resume was rejected on a scheduled campaign whose job is still queued
C8_Witness ==
    /\ lastOp.op = "resume"
    /\ lastOp.error = "Failed to resume campaign: Campaign is not paused"
    /\ lastOp.id \in DOMAIN campaigns
    /\ campaigns[lastOp.id].status = "scheduled"
    /\ JobsOf(lastOp.id) # {}

\* C9: after deleteCampaign(id) returned true the campaign is not in the store and no
\* job in the queue references id.
C9_DeleteLeavesNoJob ==
    \A id \in deleted : id \notin DOMAIN campaigns /\ JobsOf(id) = {}

\* C10: after pauseCampaign(id) returned successfully the status is paused and no
\* waiting or delayed job references id; while the campaign stays paused none appears,
\* so the processor does not run it.
C10_PauseClearsJobs ==
    /\ []((lastOp.op = "pause" /\ lastOp.error = NoValue) =>
             /\ campaigns[lastOp.id].status = "paused"
             /\ JobsOf(lastOp.id) = {})
    /\ [][\A id \in CampaignIds :
             (/\ id \in DOMAIN campaigns
              /\ campaigns[id].status = "paused"
              /\ JobsOf(id) = {})
             => /\ ~(lastOp'.op = "job" /\ lastOp'.id = id)
                /\ (id \in DOMAIN campaigns' /\ campaigns'[id].status = "paused")
                      => JobsOf(id)' = {}]_vars

\* a campaign whose delayed job was queued is paused: the job is in the failed list
C10_Witness ==
    /\ lastOp.op = "pause"
    /\ lastOp.error = NoValue
    /\ campaigns[lastOp.id].status = "paused"
    /\ lastOp.id \in failedJobs
    /\ writes = <<<<lastOp.id, "scheduled", "paused">>>>

----------------------------------------------------------------------------
(* Properties of scheduling *)

\* a one-time schedule whose start is not after the current time
PastOneTime(schedule) == schedule.frequency = NoValue /\ schedule.startDate <= now

\* a one-time schedule whose start is after the current time
FutureOneTime(schedule) == schedule.frequency = NoValue /\ schedule.startDate > now

\* the step is a scheduleCampaign(id, ...) call that returned
Scheduled(id) == lastOp'.op = "schedule" /\ lastOp'.id = id /\ lastOp'.error = NoValue

\* executions a call made: each one assigns the status active once
Executions(w) == Cardinality({k \in 1..Len(w) : w[k][3] = "active"})

\* C11: scheduleCampaign with a one-time schedule whose startDate is not after the
\* current time executes the campaign exactly once before it returns and adds no job
\* to the queue.
C11_PastStartExecutesOnce ==
    [][\A id \in CampaignIds :
          (Scheduled(id) /\ PastOneTime(lastOp'.arg))
          => /\ Executions(writes') = 1
             /\ campaigns'[id].sent = campaigns[id].sent + 100
             /\ queue' = queue
             /\ failedJobs' = failedJobs]_vars

\* a campaign with no job queued was scheduled, at time 2, with a one-time start of 1
C11_Witness ==
    /\ lastOp.op = "schedule"
    /\ lastOp.error = NoValue
    /\ lastOp.arg = [startDate |-> 1, frequency |-> NoValue]
    /\ now = 2
    /\ campaigns[lastOp.id].sent = 100
    /\ writes = <<<<lastOp.id, "draft", "scheduled">>, <<lastOp.id, "scheduled", "active">>>>
    /\ queue = <<>>

\* C12: after a successful scheduleCampaign(id, schedule) the stored campaign has
\* status scheduled and the schedule passed in, whether the schedule is one-time with a
\* future start, recurring, or one-time with a start already past.
C12_ScheduleLeavesScheduled ==
    (lastOp.op = "schedule" /\ lastOp.error = NoValue) =>
        /\ campaigns[lastOp.id].status = "scheduled"
        /\ campaigns[lastOp.id].schedule = lastOp.arg

\* C13: scheduleCampaign with a one-time schedule whose startDate is after the current
\* time submits exactly one delayed job for the campaign, due at startDate, with a
\* bounded attempt count and exponential backoff, and does not execute the campaign:
\* the status is scheduled, the passing of time does not change it, and the job's
\* callback makes it active.
C13_FutureStartQueuesOneJob ==
    [][\A id \in CampaignIds :
          /\ (Scheduled(id) /\ FutureOneTime(lastOp'.arg))
             => /\ Len(queue') = Len(queue) + 1
                /\ SubSeq(queue', 1, Len(queue)) = queue
                /\ LET job == queue'[Len(queue')]
                   IN  /\ job.campaignId = id
                       /\ ~job.repeat
                       /\ job.state = "delayed"
                       /\ job.fireAt = now + (lastOp'.arg.startDate - now)
                       /\ job.attempts \in 1..3
                       /\ job.attemptsMade = 0
                       /\ job.backoff = "exponential"
                /\ Executions(writes') = 0
                /\ campaigns'[id].sent = campaigns[id].sent
                /\ campaigns'[id].status = "scheduled"
          /\ lastOp'.op \in {"tick", "promote"} => campaigns' = campaigns
          /\ (lastOp'.op = "job" /\ lastOp'.id = id /\ lastOp'.error = NoValue)
             => /\ campaigns'[id].status = "active"
                /\ campaigns'[id].sent = campaigns[id].sent + 100]_vars

\* the job of a campaign scheduled at time 1 for time 2 has fired: the campaign went
\* from scheduled to active and the queue is empty
C13_Witness ==
    /\ lastOp.op = "job"
    /\ lastOp.error = NoValue
    /\ now = 2
    /\ campaigns[lastOp.id].schedule = [startDate |-> 2, frequency |-> NoValue]
    /\ campaigns[lastOp.id].status = "active"
    /\ campaigns[lastOp.id].sent = 100
    /\ writes = <<<<lastOp.id, "scheduled", "active">>>>
    /\ queue = <<>>

\* the errors an operation throws when a Job Queue call rejected
QueueFailures ==
    { "Failed to schedule campaign: queue unavailable",
      "Failed to pause campaign: queue unavailable",
      "Failed to resume campaign: Failed to schedule campaign: queue unavailable",
      "Failed to delete campaign: queue unavailable" }

\* C14: when a Job Queue call rejects inside scheduleCampaign, resumeCampaign,
\* pauseCampaign or deleteCampaign, the operation rejects and the stored campaign has
\* the status and schedule it had before the call.
C14_QueueFailureLeavesCampaign ==
    [][\A id \in CampaignIds :
          (lastOp'.id = id /\ lastOp'.error \in QueueFailures /\ id \in DOMAIN campaigns)
          => /\ id \in DOMAIN campaigns'
             /\ campaigns'[id].status = campaigns[id].status
             /\ campaigns'[id].schedule = campaigns[id].schedule]_vars

\* the operations that look the campaign up and throw when it is missing
LookupOps == {"schedule", "pause", "resume", "update", "metrics"}

\* what each operation puts in front of the message it rethrows
ErrorPrefixes ==
    { "Failed to schedule campaign: ", "Failed to pause campaign: ",
      "Failed to resume campaign: ", "Failed to update campaign: ", "Failed to get metrics: " }

\* C15: scheduleCampaign, pauseCampaign, resumeCampaign, updateCampaign and getMetrics
\* called with an id the store does not hold fail with a message containing
\* 'Campaign <id> not found', change no job and leave the store without the id.
C15_UnknownIdRejected ==
    [][\A id \in CampaignIds :
          (lastOp'.op \in LookupOps /\ lastOp'.id = id /\ id \notin DOMAIN campaigns)
          => /\ lastOp'.error \in {p \o "Campaign " \o id \o " not found" : p \in ErrorPrefixes}
             /\ queue' = queue
             /\ failedJobs' = failedJobs
             /\ campaigns' = campaigns]_vars

\* pauseCampaign was called for a deleted campaign whose job is still queued
C15_Witness ==
    /\ lastOp.op = "pause"
    /\ lastOp.error = "Failed to pause campaign: Campaign c1 not found"
    /\ lastOp.id \in deleted
    /\ lastOp.id \notin DOMAIN campaigns
    /\ JobsOf(lastOp.id) # {}

----------------------------------------------------------------------------
(* Properties of drafts *)

Decided == {"approved", "rejected"}

\* C16: once a draft is approved or rejected, no later approveDraft or rejectDraft
\* changes its status.
C16_DecisionIsFinal ==
    [][\A d \in DOMAIN drafts :
          drafts[d].status \in Decided => drafts'[d].status = drafts[d].status]_vars

----------------------------------------------------------------------------
(* Properties of the task ledger, the registry and the result *)

StatusRank(status) ==
    CASE status = "pending" -> 0
      [] status = "processing" -> 1
      [] status \in {"completed", "failed"} -> 2

\* C17: a persisted task only moves forward through pending, processing, then
\* completed or failed; a task saved as completed or failed is not saved again.
C17_TaskForwardOnly ==
    /\ [](\A k \in 1..Len(ledger) :
             /\ ledger[k].status \in {"pending", "processing", "completed", "failed"}
             /\ ledger[k].status \in {"completed", "failed"} => ledger[k].saves = 2)
    /\ [][/\ Len(ledger') >= Len(ledger)
          /\ \A k \in 1..Len(ledger) :
                /\ StatusRank(ledger'[k].status) >= StatusRank(ledger[k].status)
                /\ ledger'[k].agentId = ledger[k].agentId
                /\ ledger[k].status \in {"completed", "failed"} => ledger'[k] = ledger[k]]_vars

\* a run of three units: the first completed, the second failed, and both rows were
\* left alone while the third unit's row was written
C17_Witness ==
    /\ pc = "done"
    /\ Len(ledger) = 3
    /\ ledger[1].status = "completed"
    /\ ledger[2].status = "failed"
    /\ ledger[3].status = "completed"
    /\ \A k \in 1..3 : ledger[k].saves = 2

\* C18: a registered unit whose enabled flag is false is not invoked by a run, gets no
\* ledger row and no entry in the outcome map.
C18_OnlyEnabledUnitsRun ==
    /\ \A k \in 1..Len(invocations) : DeclaredEnabled(InvokedId(k))
    /\ \A k \in 1..Len(ledger) : DeclaredEnabled(ledger[k].agentId)
    /\ \A id \in DOMAIN agentResults : DeclaredEnabled(id)

Ids(units) == {units[i].id : i \in 1..Len(units)}

\* C19: registerAgent with a registered id and unregisterAgent with an unregistered id
\* fail and leave the registry as it was; after a successful registerAgent getAgents
\* lists the unit, after a successful unregisterAgent it does not.
C19_RegistryCalls ==
    [][\A id \in AgentIds :
          /\ (regResult'.op = "register" /\ regResult'.id = id /\ regOps' = regOps + 1)
             => IF id \in Ids(agents)
                THEN regResult'.error = "Agent " \o id \o " is already registered"
                     /\ getAgents' = agents
                ELSE regResult'.error = NoValue
                     /\ id \in Ids(getAgents')
                     /\ SubSeq(getAgents', 1, Len(agents)) = agents
          /\ (regResult'.op = "unregister" /\ regResult'.id = id /\ regOps' = regOps + 1)
             => IF id \notin Ids(agents)
                THEN regResult'.error = "Agent " \o id \o " not found"
                     /\ getAgents' = agents
                ELSE regResult'.error = NoValue
                     /\ id \notin Ids(getAgents')
                     /\ Ids(getAgents') = Ids(agents) \ {id}]_vars

\* a second registerAgent for a1 has failed; the registry lists the one unit it held
C19_Witness ==
    /\ regResult.op = "register"
    /\ regResult.id = "a1"
    /\ regResult.error = "Agent a1 is already registered"
    /\ regOps = 2
    /\ Len(getAgents) = 1
    /\ getAgents[1].id = "a1"

\* C20: the run leaves its input message as it was passed in and returns it as the
\* email field; finalEmail differs from it only in fields named in the modifications
\* of units that reported success.
C20_InputUntouched ==
    /\ [](pc = "done" =>
             /\ returned.email = email
             /\ \A f \in DOMAIN email :
                   returned.finalEmail[f] # email[f]
                   => /\ f \in Fields
                      /\ \E id \in DOMAIN returned.agentResults :
                            /\ returned.agentResults[id].success
                            /\ returned.agentResults[id].modifications[f] # NoValue)
    /\ [][pc # "idle" => email' = email]_vars

\* a unit returned success with the modifications category=updates, priority=high, the
\* next returned success=false with category=spam: the result carries the first unit's
\* values and the input is as it was
C20_Witness ==
    /\ pc = "done"
    /\ Len(invocations) = 2
    /\ returned.agentResults[InvokedId(1)].success
    /\ returned.agentResults[InvokedId(1)].modifications.category = "updates"
    /\ ~returned.agentResults[InvokedId(2)].success
    /\ returned.agentResults[InvokedId(2)].modifications.category = "spam"
    /\ returned.email = email
    /\ email.category = "primary"
    /\ returned.finalEmail.category = "updates"
    /\ returned.finalEmail.priority = "high"

----------------------------------------------------------------------------
(* Properties of the pipeline under ledger faults and registry changes *)

\* C28: in the result of a run, finalEmail carries the modifications of exactly the
\* units whose outcome has success = true, also when a ledger write fails.
C28_MergedIffSuccess ==
    pc = "done" => returned.finalEmail = Accumulated(Len(invocations))

\* position of a unit in the registry as the run found it (Map insertion order)
StartPosition(id) == CHOOSE i \in 1..Len(startAgents) : startAgents[i].id = id

\* the units of the registry found at the start, in the order the run takes them
RunOrder == SortAgents(startAgents)

\* C29: a run works on the units registered when it starts; registerAgent and
\* unregisterAgent during the run change neither which units it invokes nor their
\* order, and count only for a run that starts afterwards.
C29_RunUsesStartRegistry ==
    /\ [](/\ \A k \in 1..Len(invocations) :
             k <= Len(RunOrder) /\ InvokedId(k) = RunOrder[k].id
          /\ pc = "done" => Len(invocations) = Len(startAgents))
    /\ [][pc # "idle" => startAgents' = startAgents]_vars
    /\ [][(pc = "idle" /\ pc' # "idle") => startAgents' = agents]_vars

\* the unit in flight is the second of two and was unregistered after the run started
C29_Witness ==
    /\ pc = "await"
    /\ Len(startAgents) = 2
    /\ idx = 2
    /\ InvokedId(2) \notin RegisteredIds
    /\ InvokedId(1) \in RegisteredIds

\* C30: the order of a run is a function of the registry: descending type rank, types
\* outside the table last at rank 0, units of equal rank in registration order.
C30_TiesInRegistrationOrder ==
    \A j, k \in 1..Len(invocations) :
        j < k => /\ TypeRank(InvokedType(j)) >= TypeRank(InvokedType(k))
                 /\ TypeRank(InvokedType(j)) = TypeRank(InvokedType(k))
                       => StartPosition(InvokedId(j)) < StartPosition(InvokedId(k))

\* two units of a type outside the table, registered a3 then a1 around a filter unit
C30_Witness ==
    /\ pc = "done"
    /\ Len(startAgents) = 3
    /\ Len(invocations) = 3
    /\ startAgents[1] = Unit("a3", "custom")
    /\ startAgents[2].type = "filter"
    /\ startAgents[3] = Unit("a1", "custom")
    /\ InvokedId(1) = startAgents[2].id
    /\ InvokedId(2) = "a3"
    /\ InvokedId(3) = "a1"

----------------------------------------------------------------------------
(* Properties of jobs and of campaign creation *)

\* C23: every job the scheduler submits, one-time or recurring, carries a bounded
\* attempt count and an exponential backoff, and a failing job leaves the campaign's
\* status alone.
C23_EveryJobHasRetryPolicy ==
    /\ [](\A i \in 1..Len(queue) :
             /\ queue[i].attempts \in 1..3
             /\ queue[i].backoff = "exponential")
    /\ [][(lastOp'.op = "job" /\ lastOp'.error # NoValue) => campaigns' = campaigns]_vars

C26_OneTimeExecutedOnce ==
    \A id \in DOMAIN campaigns : campaigns[id].sent <= 100

\* C27: once pauseCampaign has completed, no step of an execution callback that was
\* dispatched or in progress changes the stored status from paused.
C27_CallbackKeepsPause ==
    [][\A id \in CampaignIds :
          (/\ lastOp'.op \in {"job-start", "job"}
           /\ id \in DOMAIN campaigns
           /\ campaigns[id].status = "paused")
          => /\ id \in DOMAIN campaigns'
             /\ campaigns'[id].status = "paused"]_vars

\* C25: the queue never holds more than one pending job for a campaign id.
C25_OnePendingJobPerCampaign ==
    \A id \in CampaignIds : Cardinality(JobsOf(id)) <= 1

----------------------------------------------------------------------------
(* Properties of the recurrence derivation *)

\* the moments looked at: every weekday, the hours and minutes around the send times
SampleHours == {8, 9, 10}

SampleMinutes == {0, 30}

Elements(seq) == {seq[i] : i \in 1..Len(seq)}

\* C21: for a weekly schedule with weekdays D and sendTime HH:MM the pattern submitted
\* with the repeating job fires exactly at hour HH, minute MM on the weekdays in D.
C21_WeeklyFiresAtSendTime ==
    LET schedule == recurrence.schedule
    IN  (/\ schedule.type = "weekly"
         /\ schedule.sendTime # NoText
         /\ schedule.daysOfWeek \notin {NoDays, <<>>})
        => \E mode \in ParserModes :
              \A weekday \in 0..6, hour \in SampleHours, minute \in SampleMinutes :
                 FiresWeekly(recurrence.cron, mode, weekday, hour, minute)
                 <=> /\ weekday \in Elements(schedule.daysOfWeek)
                     /\ hour = ToNumber(Split(schedule.sendTime, ":")[1])
                     /\ minute = ToNumber(Split(schedule.sendTime, ":")[2])

\* C22: a recurring schedule without sendTime yields the pattern of the same schedule
\* with sendTime '10:00'; weekly without daysOfWeek, or with none, that of
\* daysOfWeek = [1]; monthly without dayOfMonth that of dayOfMonth = 1; a custom
\* frequency with a pattern supplied submits that pattern as it is.
C22_RecurrenceDefaults ==
    LET schedule == recurrence.schedule
    IN  schedule.type # "none" =>
        /\ schedule.sendTime = NoText
           => recurrence.cron = cronPattern([schedule EXCEPT !.sendTime = <<"1", "0", ":", "0", "0">>])
        /\ (schedule.type = "weekly" /\ schedule.daysOfWeek \in {NoDays, <<>>})
           => recurrence.cron = cronPattern([schedule EXCEPT !.daysOfWeek = <<1>>])
        /\ (schedule.type = "monthly" /\ schedule.dayOfMonth = NoDay)
           => recurrence.cron = cronPattern([schedule EXCEPT !.dayOfMonth = 1])
        /\ (schedule.type = "custom" /\ schedule.customCron # NoText)
           => recurrence.cron = schedule.customCron

\* a weekly schedule with neither send time nor weekdays got the pattern '0 10:00 * * 1'
C22_Witness ==
    /\ recurrence.schedule.type = "weekly"
    /\ recurrence.schedule.sendTime = NoText
    /\ recurrence.schedule.daysOfWeek = NoDays
    /\ recurrence.cron = <<"0", " ", "1", "0", ":", "0", "0", " ", "*", " ", "*", " ", "1">>

====
